---- MODULE Spec2Model ----
(***************************************************************************)
(* Model of the next-boil command (src/index.js): one invocation of the    *)
(* commander action handler, from argument destructuring to process exit.  *)
(* Strings that the code inspects with regular expressions are sequences   *)
(* of one-character strings; the filesystem is the base directory and the  *)
(* resolved target path; the clone, git, install, prompt and mkdir calls   *)
(* are external and answer nondeterministically.                           *)
(***************************************************************************)
EXTENDS Integers, Sequences, FiniteSets, TLC

VARIABLES
  projectName,     \* positional argument, a sequence of characters
  template,        \* options.template, a sequence of characters
  packageManager,  \* options.packageManager
  baseDirExists,   \* whether fs.access(baseDir) resolves
  force,           \* options.force
  git,             \* options.git (false with --no-git)
  debug,           \* options.debug
  pc,              \* position of the handler
  retries,         \* cloneRepo's remaining-attempts counter
  err,             \* the error caught by the handler's catch, <<kind, n>>
  exitCode,        \* process exit status, NoExit while running
  fsKind,          \* what the target path is: "absent", "dir" or "file"
  files,           \* content of each file name under the target path
  files0,          \* history: files at the start of the run
  fsKind0,         \* history: fsKind at the start of the run
  exists,          \* result of the existence test of line 150
  confirmed,       \* answer of the confirmation prompt
  ops,             \* history: the operations the run performed, in order
  out,             \* history: the messages the run printed, in order
  extCount,        \* number of modifications by other processes so far
  projectPath,     \* the path resolved at line 139
  partials,        \* history: for each failed clone attempt, whether it
                   \* left part of the template behind
  phase,           \* 1, or 2 in the second run of a compared pair
  first            \* in phase 2: what the first run of the pair did

vars == <<projectName, template, packageManager, baseDirExists, force, git,
          debug, pc, retries, err, exitCode, fsKind, files, files0, fsKind0,
          exists, confirmed, ops, out, extCount, projectPath, partials,
          phase, first>>

request == <<projectName, template, packageManager, baseDirExists, force,
             git, debug, files0, fsKind0, projectPath, phase, first>>

----------------------------------------------------------------------------
(* Bounds *)

MaxNameLen == 2
MaxExternal == 1

(* Program constants *)

DefaultRetries == 3
NoExit == 0 - 1

----------------------------------------------------------------------------
(* Characters.  Code gives the code unit of each character of the model's  *)
(* alphabet, so that the ranges of a character class are real ranges.      *)

Alphabet == {"a", "z", "A", "Z", "0", "9", "-", "_", "/", " ", "@", ":",
             "[", "{", "h", "t", "p", "s", "f", "n", "o", "u", "r", "l"}

Code(c) ==
  CASE c = " " -> 32  [] c = "-" -> 45  [] c = "/" -> 47  [] c = "0" -> 48
    [] c = "9" -> 57  [] c = ":" -> 58  [] c = "@" -> 64  [] c = "A" -> 65
    [] c = "Z" -> 90  [] c = "[" -> 91  [] c = "_" -> 95  [] c = "a" -> 97  [] c = "f" -> 102
    [] c = "h" -> 104 [] c = "l" -> 108 [] c = "n" -> 110 [] c = "o" -> 111
    [] c = "p" -> 112 [] c = "r" -> 114 [] c = "s" -> 115 [] c = "t" -> 116
    [] c = "u" -> 117 [] c = "z" -> 122 [] c = "{" -> 123

SeqsUpTo(S, n) == UNION {[1..k -> S] : k \in 0..n}

----------------------------------------------------------------------------
(* /^[a-zA-Z0-9-_]+$/ : the class is the ranges a-z, A-Z, 0-9 and the two  *)
(* literals '-' and '_'; '+' needs one character at least; the anchors     *)
(* make the class cover the whole string.                                  *)

(* The class with the path separator in it. *)
NameClassWithSlash(c) ==
  \/ Code(c) \in 97..122
  \/ Code(c) \in 65..90
  \/ Code(c) \in 48..57
  \/ Code(c) = 45
  \/ Code(c) = 95
  \/ Code(c) = 47

(* The class read with '9-_' as a range. *)
NameClassDashRange(c) ==
  \/ Code(c) \in 97..122
  \/ Code(c) \in 65..90
  \/ Code(c) \in 48..57
  \/ Code(c) \in 57..95

NameClass(c) ==
  \/ Code(c) \in 97..122
  \/ Code(c) \in 65..90
  \/ Code(c) \in 48..57
  \/ Code(c) = 45
  \/ Code(c) = 95

ProjectNameValid(name) ==
  /\ Len(name) >= 1
  /\ \A i \in 1..Len(name) : NameClass(name[i])

(* validatePackageManager: validManagers.includes(manager) *)

(* One more manager in the list. *)
validManagersWithBun == {"npm", "yarn", "pnpm", "bun"}

validManagers == {"npm", "yarn", "pnpm"}

PackageManagerValid(manager) == manager \in validManagers

(* /^(https?:\/\/[^\s]+)$/ *)

IsSpace(c) == c = " "

HasPrefix(s, p) == Len(s) >= Len(p) /\ SubSeq(s, 1, Len(p)) = p

RestNonSpace(s, from) ==
  /\ Len(s) >= from
  /\ \A i \in from..Len(s) : ~IsSpace(s[i])

TemplateUrlValid(url) ==
  \/ HasPrefix(url, <<"h","t","t","p","s",":","/","/">>) /\ RestNonSpace(url, 9)
  \/ HasPrefix(url, <<"h","t","t","p",":","/","/">>) /\ RestNonSpace(url, 8)

(* resolveProjectPath: an absolute project name is used verbatim, any      *)
(* other name is resolved against baseDir.                                 *)

IsAbsolute(name) == Len(name) >= 1 /\ name[1] = "/"

resolveProjectPath(name) ==
  IF IsAbsolute(name) THEN <<"verbatim", name>> ELSE <<"joined", name>>

----------------------------------------------------------------------------
(* Inputs *)

ProjectNames == { <<"a","p","p">>, <<"a","-","Z","_","9">>, <<"a","/","p">>,
                  <<"/","a">>, <<>> }

Templates == { <<"h","t","t","p","s",":","/","/","r">>,
               <<"h","t","t","p",":","/","/","r">>,
               <<"f","t","p",":","/","/","h","/","p">>,
               <<"n","o","t","-","a","-","u","r","l">> }

PackageManagers == {"npm", "yarn", "pnpm", "bun", "NPM"}

FileNames == {"package.json", "notes.txt"}
TemplateFiles == {"package.json"}
Contents == {"none", "old", "ext", "tmpl", "part"}

NoFiles == [n \in FileNames |-> "none"]


----------------------------------------------------------------------------
(* Initial states: the handler is entered with the parsed arguments; the   *)
(* target path is absent, a directory holding any of the old files, or     *)
(* something that cannot be listed (a regular file).                       *)

InitFs ==
  /\ fsKind \in {"absent", "dir", "file"}
  /\ files \in [FileNames -> {"none", "old"}]
  /\ fsKind # "dir" => files = NoFiles
  /\ files0 = files
  /\ fsKind0 = fsKind

NoFirst == [ops |-> <<>>, out |-> <<>>, exitCode |-> NoExit,
            fsKind |-> "absent", files |-> NoFiles, partials |-> <<>>]

InitRun ==
  /\ pc = "checkName"
  /\ retries = DefaultRetries
  /\ err = <<"none", 0>>
  /\ exitCode = NoExit
  /\ exists = "unknown"
  /\ confirmed = "none"
  /\ ops = <<>>
  /\ out = <<>>
  /\ extCount = 0
  /\ projectPath = resolveProjectPath(projectName)
  /\ partials = <<>>
  /\ phase = 1
  /\ first = NoFirst

Init ==
  /\ projectName \in ProjectNames
  /\ template \in Templates
  /\ packageManager \in PackageManagers
  /\ baseDirExists \in BOOLEAN
  /\ force \in BOOLEAN
  /\ git \in BOOLEAN
  /\ debug \in BOOLEAN
  /\ InitFs
  /\ InitRun

----------------------------------------------------------------------------
(* Helpers of the actions *)

Did(op) == \E i \in 1..Len(ops) : ops[i][1] = op

Count(op) == Cardinality({i \in 1..Len(ops) : ops[i][1] = op})

Succeeded(op) == \E i \in 1..Len(ops) : ops[i] = <<op, TRUE>>

Failed(op) == \E i \in 1..Len(ops) : ops[i] = <<op, FALSE>>

Throw(e) ==
  /\ pc' = "catch"
  /\ err' = e

----------------------------------------------------------------------------
(* validateInputs, one action per check.  A failing check throws, which    *)
(* leaves validateInputs: the checks after it are not run.                 *)

(* validatePackageManager is not called. *)
CheckProjectNameThenUrl ==
  /\ pc = "checkName"
  /\ ops' = Append(ops, <<"checkName", ProjectNameValid(projectName)>>)
  /\ IF ProjectNameValid(projectName)
       THEN pc' = "checkUrl" /\ err' = err
       ELSE Throw(<<"name", 0>>)
  /\ UNCHANGED <<request, retries, exitCode, fsKind, files, exists,
                 confirmed, out, extCount, partials>>

CheckProjectName ==
  /\ pc = "checkName"
  /\ ops' = Append(ops, <<"checkName", ProjectNameValid(projectName)>>)
  /\ IF ProjectNameValid(projectName)
       THEN pc' = "checkPM" /\ err' = err
       ELSE Throw(<<"name", 0>>)
  /\ UNCHANGED <<request, retries, exitCode, fsKind, files, exists,
                 confirmed, out, extCount, partials>>

CheckPackageManager ==
  /\ pc = "checkPM"
  /\ ops' = Append(ops, <<"checkPM", PackageManagerValid(packageManager)>>)
  /\ IF PackageManagerValid(packageManager)
       THEN pc' = "checkUrl" /\ err' = err
       ELSE Throw(<<"packageManager", 0>>)
  /\ UNCHANGED <<request, retries, exitCode, fsKind, files, exists,
                 confirmed, out, extCount, partials>>

(* The failure of the test is not thrown. *)
CheckTemplateUrlNoThrow ==
  /\ pc = "checkUrl"
  /\ ops' = Append(ops, <<"checkUrl", TemplateUrlValid(template)>>)
  /\ pc' = "checkBase"
  /\ UNCHANGED <<request, retries, err, exitCode, fsKind, files, exists,
                 confirmed, out, extCount, partials>>

CheckTemplateUrl ==
  /\ pc = "checkUrl"
  /\ ops' = Append(ops, <<"checkUrl", TemplateUrlValid(template)>>)
  /\ IF TemplateUrlValid(template)
       THEN pc' = "checkBase" /\ err' = err
       ELSE Throw(<<"template", 0>>)
  /\ UNCHANGED <<request, retries, exitCode, fsKind, files, exists,
                 confirmed, out, extCount, partials>>

(* The rejection of fs.access is swallowed. *)
CheckBaseDirSwallowed ==
  /\ pc = "checkBase"
  /\ ops' = Append(ops, <<"accessBase", baseDirExists>>)
  /\ pc' = "accessTarget"
  /\ UNCHANGED <<request, retries, err, exitCode, fsKind, files, exists,
                 confirmed, out, extCount, partials>>

CheckBaseDir ==
  /\ pc = "checkBase"
  /\ ops' = Append(ops, <<"accessBase", baseDirExists>>)
  /\ IF baseDirExists
       THEN pc' = "accessTarget" /\ err' = err
       ELSE Throw(<<"baseDir", 0>>)
  /\ UNCHANGED <<request, retries, exitCode, fsKind, files, exists,
                 confirmed, out, extCount, partials>>


----------------------------------------------------------------------------
(* The directory checks of the handler (lines 146-165).                    *)

(* The force flag is tested before the existence of the path. *)
AccessTargetForceFirst ==
  /\ pc = "accessTarget"
  /\ ops' = Append(ops, <<"accessTarget", fsKind # "absent">>)
  /\ exists' = IF fsKind # "absent" THEN "yes" ELSE "no"
  /\ pc' = IF force THEN "prompt"
           ELSE IF fsKind = "absent" THEN "mkdir" ELSE "readdir"
  /\ UNCHANGED <<request, retries, err, exitCode, fsKind, files, confirmed,
                 out, extCount, partials>>

(* Line 146 repeats the project-name test; line 150 tests the existence   *)
(* of the target path and selects the branch.  With force unset the next   *)
(* step lists the directory; with force set the listing is skipped         *)
(* (!force && ... short-circuits) and the prompt follows.                  *)
AccessTarget ==
  /\ pc = "accessTarget"
  /\ IF ~ProjectNameValid(projectName)
       THEN /\ Throw(<<"name", 0>>)
            /\ UNCHANGED <<exists, ops>>
       ELSE /\ ops' = Append(ops, <<"accessTarget", fsKind # "absent">>)
            /\ exists' = IF fsKind # "absent" THEN "yes" ELSE "no"
            /\ pc' = IF fsKind = "absent" THEN "mkdir"
                     ELSE IF force THEN "prompt" ELSE "readdir"
            /\ err' = err
  /\ UNCHANGED <<request, retries, exitCode, fsKind, files, confirmed, out, extCount, partials>>

(* The catch of the failed listing answers true. *)
isDirectoryEmptyWhenUnlistable ==
  IF fsKind = "dir" THEN \A n \in FileNames : files[n] = "none" ELSE TRUE

(* The listing's length is not tested. *)
isDirectoryEmptyAnyListing == fsKind = "dir"

(* isDirectoryEmpty: readdir of something that is not a directory throws   *)
(* and the catch answers false.                                            *)
isDirectoryEmpty ==
  IF fsKind = "dir" THEN \A n \in FileNames : files[n] = "none" ELSE FALSE

(* Line 151, force unset: a target that is not empty is a conflict.        *)
ReadDir ==
  /\ pc = "readdir"
  /\ ops' = Append(ops, <<"readdir", isDirectoryEmpty>>)
  /\ IF ~isDirectoryEmpty
       THEN Throw(<<"conflict", 0>>)
       ELSE pc' = "clone" /\ err' = err
  /\ UNCHANGED <<request, retries, exitCode, fsKind, files, exists,
                 confirmed, out, extCount, partials>>

(* A refusal ends the run with process.exit(0). *)
PromptRefusalExitsZero ==
  /\ pc = "prompt"
  /\ \E answer \in BOOLEAN :
       /\ ops' = Append(ops, <<"prompt", answer>>)
       /\ confirmed' = IF answer THEN "yes" ELSE "no"
       /\ IF answer
            THEN /\ pc' = "clone"
                 /\ UNCHANGED <<exitCode, out>>
            ELSE /\ out' = Append(out, "aborted")
                 /\ exitCode' = 0
                 /\ pc' = "exit"
  /\ UNCHANGED <<request, retries, err, fsKind, files, exists,
                 extCount, partials>>

(* A refusal is logged but the handler goes on. *)
PromptIgnoringRefusal ==
  /\ pc = "prompt"
  /\ \E answer \in BOOLEAN :
       /\ ops' = Append(ops, <<"prompt", answer>>)
       /\ confirmed' = IF answer THEN "yes" ELSE "no"
       /\ out' = IF answer THEN out ELSE Append(out, "aborted")
       /\ pc' = "clone"
  /\ UNCHANGED <<request, retries, err, exitCode, fsKind, files, exists,
                 extCount, partials>>

(* Lines 154-162, force set: ask; a refusal logs and exits with status 1.  *)
Prompt ==
  /\ pc = "prompt"
  /\ \E answer \in BOOLEAN :
       /\ ops' = Append(ops, <<"prompt", answer>>)
       /\ confirmed' = IF answer THEN "yes" ELSE "no"
       /\ IF answer
            THEN /\ pc' = "clone"
                 /\ UNCHANGED <<exitCode, out>>
            ELSE /\ out' = Append(out, "aborted")
                 /\ exitCode' = 1
                 /\ pc' = "exit"
  /\ UNCHANGED <<request, retries, err, fsKind, files, exists,
                 extCount, partials>>

(* Line 164: fs.mkdir(projectPath, {recursive: true}).  It rejects when    *)
(* the path is now a regular file and may reject for the reasons the       *)
(* existence test of baseDir does not cover (no write access, baseDir not  *)
(* a directory); an existing directory is not an error.                    *)
Mkdir ==
  /\ pc = "mkdir"
  /\ \E ok \in BOOLEAN :
       /\ fsKind = "file" => ~ok
       /\ ops' = Append(ops, <<"mkdir", ok>>)
       /\ IF ok
            THEN /\ fsKind' = "dir"
                 /\ pc' = "clone"
                 /\ err' = err
            ELSE /\ fsKind' = fsKind
                 /\ Throw(<<"mkdir", 0>>)
  /\ UNCHANGED <<request, retries, exitCode, files, exists,
                 confirmed, out, extCount, partials>>


----------------------------------------------------------------------------
(* cloneRepo (lines 82-99): one action per pass of the while loop.         *)

(* degit's clone with force: the template's files replace the files of    *)
(* the same name, the other files stay.                                    *)
CloneWrite(f) ==
  [n \in FileNames |-> IF n \in TemplateFiles THEN "tmpl" ELSE f[n]]

(* A clone that fails part-way may have written part of the template.      *)
ClonePartial(f) ==
  [n \in FileNames |-> IF n \in TemplateFiles THEN "part" ELSE f[n]]

(* Line 91 *)
RetriesAfterFailure(r) == r - 1

(* The loop gives up one failure early. *)
RetriesExhaustedEarly(r) == r <= 1

(* Line 93 *)
RetriesExhausted(r) == r = 0

(* The error of the attempt before the last is the one rethrown. *)
ThrownAttemptPrevious == Count("clone")

(* Line 95 rethrows err, the error caught in the current pass of the loop: *)
(* the error of the attempt that has just failed.                          *)
ThrownAttempt == Count("clone") + 1

(* The git option is not consulted. *)
AfterCloneAlwaysGit == "git"

(* Line 168: git initialisation is the next step unless --no-git.          *)
AfterClone == IF git THEN "git" ELSE "install"

(* The directory is listed again before the first attempt, and a target   *)
(* that is no longer empty is a conflict.                                  *)
CloneAttemptListingFirst ==
  IF pc = "clone" /\ ~force /\ ~Did("clone") /\ ~isDirectoryEmpty
    THEN /\ Throw(<<"conflict", 0>>)
         /\ UNCHANGED <<request, retries, exitCode, fsKind, files, exists,
                        confirmed, ops, out, extCount, partials>>
    ELSE
       /\ pc = "clone"
       /\ retries > 0
       /\ \E ok \in BOOLEAN :
            /\ fsKind = "file" => ~ok
            /\ ops' = Append(ops, <<"clone", ok>>)
            /\ IF ok
                 THEN /\ fsKind' = "dir"
                      /\ files' = CloneWrite(files)
                      /\ out' = Append(out, "cloned")
                      /\ pc' = AfterClone
                      /\ UNCHANGED <<retries, err, partials>>
                 ELSE /\ \/ /\ UNCHANGED <<fsKind, files>>
                            /\ partials' = Append(partials, FALSE)
                         \/ /\ fsKind # "file"
                            /\ fsKind' = "dir"
                            /\ files' = ClonePartial(files)
                            /\ partials' = Append(partials, TRUE)
                      /\ retries' = RetriesAfterFailure(retries)
                      /\ IF RetriesExhausted(retries')
                           THEN /\ out' = Append(out, "cloneFailed")
                                /\ Throw(<<"clone", ThrownAttempt>>)
                           ELSE /\ out' = out
                                /\ UNCHANGED <<pc, err>>
       /\ UNCHANGED <<request, exitCode, exists, confirmed, extCount>>

CloneAttempt ==
  /\ pc = "clone"
  /\ retries > 0
  /\ \E ok \in BOOLEAN :
       /\ fsKind = "file" => ~ok
       /\ ops' = Append(ops, <<"clone", ok>>)
       /\ IF ok
            THEN /\ fsKind' = "dir"
                 /\ files' = CloneWrite(files)
                 /\ out' = Append(out, "cloned")
                 /\ pc' = AfterClone
                 /\ UNCHANGED <<retries, err, partials>>
            ELSE /\ \/ /\ UNCHANGED <<fsKind, files>>
                       /\ partials' = Append(partials, FALSE)
                    \/ /\ fsKind # "file"
                       /\ fsKind' = "dir"
                       /\ files' = ClonePartial(files)
                       /\ partials' = Append(partials, TRUE)
                 /\ retries' = RetriesAfterFailure(retries)
                 /\ IF RetriesExhausted(retries')
                      THEN /\ out' = Append(out, "cloneFailed")
                           /\ Throw(<<"clone", ThrownAttempt>>)
                      ELSE /\ out' = out
                           /\ UNCHANGED <<pc, err>>
  /\ UNCHANGED <<request, exitCode, exists, confirmed, extCount>>

(* initializeGit (lines 101-111): a failure is caught and logged as a      *)
(* warning; the result is not used by the caller (line 168).               *)
InitGit ==
  /\ pc = "git"
  /\ \E ok \in BOOLEAN :
       /\ ops' = Append(ops, <<"gitInit", ok>>)
       /\ out' = Append(out, IF ok THEN "gitInitialized" ELSE "gitWarning")
  /\ pc' = "install"
  /\ UNCHANGED <<request, retries, err, exitCode, fsKind, files, exists, confirmed, extCount, partials>>

(* The result of installDependencies is not tested. *)
InstallDepsResultIgnored ==
  /\ pc = "install"
  /\ \E ok \in BOOLEAN :
       /\ ops' = Append(ops, <<"install", ok>>)
       /\ out' = IF ok THEN out ELSE Append(out, "installFailed")
  /\ pc' = "summary"
  /\ UNCHANGED <<request, retries, err, exitCode, fsKind, files, exists,
                 confirmed, extCount, partials>>

(* installDependencies (lines 113-125) and the test of its result (lines   *)
(* 170-174): validatePackageManager throws outside the try; a failing      *)
(* install answers false and the handler exits with status 1.              *)
InstallDeps ==
  /\ pc = "install"
  /\ IF ~PackageManagerValid(packageManager)
       THEN /\ Throw(<<"packageManager", 0>>)
            /\ UNCHANGED <<ops, out, exitCode>>
       ELSE \E ok \in BOOLEAN :
              /\ ops' = Append(ops, <<"install", ok>>)
              /\ err' = err
              /\ IF ok
                   THEN /\ pc' = "summary"
                        /\ UNCHANGED <<out, exitCode>>
                   ELSE /\ out' = out \o <<"installFailed", "incomplete">>
                        /\ exitCode' = 1
                        /\ pc' = "exit"
  /\ UNCHANGED <<request, retries, fsKind, files, exists, confirmed,
                 extCount, partials>>

(* Lines 176-190: the summary box and the success messages; the handler    *)
(* returns and the process ends with status 0.                             *)
Summarize ==
  /\ pc = "summary"
  /\ ops' = Append(ops, <<"summary", TRUE>>)
  /\ out' = out \o <<"summary", "success">>
  /\ exitCode' = 0
  /\ pc' = "exit"
  /\ UNCHANGED <<request, retries, err, fsKind, files, exists,
                 confirmed, extCount, partials>>

(* The catch restores the target to what it was before the run. *)
CatchWithRollback ==
  /\ pc = "catch"
  /\ out' = out \o <<"setupFailed", IF debug THEN "stack" ELSE "message">>
  /\ exitCode' = 1
  /\ pc' = "exit"
  /\ fsKind' = fsKind0
  /\ files' = files0
  /\ UNCHANGED <<request, retries, err, exists, confirmed, ops, extCount,
                 partials>>

(* process.exit(1) is reached only in the branch without --debug. *)
CatchExitOnlyWithoutDebug ==
  /\ pc = "catch"
  /\ out' = out \o <<"setupFailed", IF debug THEN "stack" ELSE "message">>
  /\ exitCode' = IF debug THEN 0 ELSE 1
  /\ pc' = "exit"
  /\ UNCHANGED <<request, retries, err, fsKind, files, exists,
                 confirmed, ops, extCount, partials>>

(* Lines 191-199: the catch of the handler.                                *)
Catch ==
  /\ pc = "catch"
  /\ out' = out \o <<"setupFailed", IF debug THEN "stack" ELSE "message">>
  /\ exitCode' = 1
  /\ pc' = "exit"
  /\ UNCHANGED <<request, retries, err, fsKind, files, exists,
                 confirmed, ops, extCount, partials>>

(* Another process creates a file under the target path (creating the      *)
(* directory when it is absent); nothing in the handler excludes it.       *)
ExternalPut ==
  /\ pc # "exit"
  /\ extCount < MaxExternal
  /\ fsKind # "file"
  /\ \E n \in FileNames :
       /\ files[n] = "none"
       /\ files' = [files EXCEPT ![n] = "ext"]
  /\ fsKind' = "dir"
  /\ extCount' = extCount + 1
  /\ UNCHANGED <<request, pc, retries, err, exitCode, exists,
                 confirmed, ops, out,
                 partials>>

----------------------------------------------------------------------------

Next ==
  \/ CheckProjectName
  \/ CheckPackageManager
  \/ CheckTemplateUrl
  \/ CheckBaseDir
  \/ AccessTarget
  \/ ReadDir
  \/ Prompt
  \/ Mkdir
  \/ CloneAttempt
  \/ InitGit
  \/ InstallDeps
  \/ Summarize
  \/ Catch
  \/ ExternalPut

Spec == Init /\ [][Next]_vars

(* validateInputs alone, on every project name over NameAlphabet up to     *)
(* MaxNameLen characters; the options other than those it reads have the   *)
(* defaults of the command line.                                           *)

NameAlphabet == {"a", "z", "A", "Z", "0", "9", "-", "_", "/", " ", "@", ":",
                 "[", "{"}

InitValidate ==
  /\ projectName \in SeqsUpTo(NameAlphabet, MaxNameLen)
  /\ template \in Templates
  /\ packageManager \in PackageManagers
  /\ baseDirExists \in BOOLEAN
  /\ force = FALSE
  /\ git = TRUE
  /\ debug = FALSE
  /\ fsKind = "absent"
  /\ files = NoFiles
  /\ files0 = files
  /\ fsKind0 = fsKind
  /\ InitRun

NextValidate ==
  \/ CheckProjectName
  \/ CheckPackageManager
  \/ CheckTemplateUrl
  \/ CheckBaseDir
  \/ Catch

SpecValidate == InitValidate /\ [][NextValidate]_vars

(* Two runs of the command that differ in --debug only: when the first run *)
(* has exited, the command is run again from the same filesystem with the  *)
(* flag flipped, and the prompt, mkdir, clone, git and install calls       *)
(* answer the second run as they answered the first.                       *)

RunStep ==
  \/ CheckProjectName
  \/ CheckPackageManager
  \/ CheckTemplateUrl
  \/ CheckBaseDir
  \/ AccessTarget
  \/ ReadDir
  \/ Prompt
  \/ Mkdir
  \/ CloneAttempt
  \/ InitGit
  \/ InstallDeps
  \/ Summarize
  \/ Catch

ExternalCalls == {"prompt", "mkdir", "clone", "gitInit", "install"}

SameAnswers ==
  /\ LET k == Len(ops)
     IN  (/\ k >= 1 /\ k <= Len(first.ops)
          /\ ops[k][1] \in ExternalCalls
          /\ ops[k][1] = first.ops[k][1])
           => ops[k][2] = first.ops[k][2]
  /\ LET j == Len(partials)
     IN  (j >= 1 /\ j <= Len(first.partials))
           => partials[j] = first.partials[j]

Restart ==
  /\ phase = 1
  /\ pc = "exit"
  /\ first' = [ops |-> ops, out |-> out, exitCode |-> exitCode,
               fsKind |-> fsKind, files |-> files, partials |-> partials]
  /\ phase' = 2
  /\ debug' = ~debug
  /\ pc' = "checkName"
  /\ retries' = DefaultRetries
  /\ err' = <<"none", 0>>
  /\ exitCode' = NoExit
  /\ exists' = "unknown"
  /\ confirmed' = "none"
  /\ ops' = <<>>
  /\ out' = <<>>
  /\ partials' = <<>>
  /\ fsKind' = fsKind0
  /\ files' = files0
  /\ UNCHANGED <<projectName, template, packageManager, baseDirExists, force,
                 git, files0, fsKind0, projectPath, extCount>>

NextPair ==
  \/ RunStep /\ (phase = 2 => SameAnswers')
  \/ Restart

SpecPair == Init /\ [][NextPair]_vars

TypeOK ==
  /\ pc \in {"checkName", "checkPM", "checkUrl", "checkBase", "accessTarget",
             "readdir", "prompt", "mkdir", "clone", "git", "install",
             "summary", "catch", "exit"}
  /\ retries \in 0..DefaultRetries
  /\ exitCode \in {NoExit, 0, 1}
  /\ fsKind \in {"absent", "dir", "file"}
  /\ files \in [FileNames -> Contents]
  /\ exists \in {"unknown", "yes", "no"}
  /\ confirmed \in {"none", "yes", "no"}
  /\ extCount \in 0..MaxExternal
  /\ (pc = "exit") <=> (exitCode # NoExit)


----------------------------------------------------------------------------
(* Vocabulary of the properties *)

IsClone(o) == o[1] = "clone"

CloneResults == SelectSeq(ops, IsClone)

(* No operation of the run that writes below the target path, and the      *)
(* files that were there are what they were.                               *)
RunWroteNothing ==
  /\ ~Did("mkdir") /\ ~Did("clone") /\ ~Did("gitInit") /\ ~Did("install")
  /\ \A n \in FileNames : files[n] \in {files0[n], "ext"}
  /\ \A n \in FileNames : files0[n] = "old" => files[n] = "old"

Printed(msg) == \E i \in 1..Len(out) : out[i] = msg

----------------------------------------------------------------------------
(* C1: the fetcher makes at most 3 clone attempts in a run; no attempt     *)
(* follows a successful one; when every attempt fails the run stops after  *)
(* exactly 3 attempts and exits with status 1; when two attempts fail and  *)
(* the third succeeds, and the install succeeds, the run exits with 0.     *)
C1_AtMostThreeCloneAttempts ==
  /\ Len(CloneResults) <= 3
  /\ \A i \in 1..Len(CloneResults) :
       CloneResults[i][2] => i = Len(CloneResults)
  /\ (pc \in {"catch", "exit"} /\ Did("clone") /\ ~Succeeded("clone"))
       => /\ Len(CloneResults) = 3
          /\ err[1] = "clone"
          /\ pc = "exit" => exitCode = 1
  /\ (Len(CloneResults) = 3 /\ ~Succeeded("clone")) => pc \in {"catch", "exit"}
  /\ (/\ pc = "exit"
      /\ CloneResults = <<(<<"clone", FALSE>>), (<<"clone", FALSE>>),
                          (<<"clone", TRUE>>)>>
      /\ Succeeded("install"))
       => exitCode = 0

C1_Witness_TwoFailuresThenSuccess ==
  /\ pc = "exit"
  /\ exitCode = 0
  /\ CloneResults = <<(<<"clone", FALSE>>), (<<"clone", FALSE>>),
                      (<<"clone", TRUE>>)>>
  /\ Succeeded("install")

(* C2: once the fetch has succeeded, a failing dependency installation     *)
(* ends the run with status 1 and without the success summary, whatever    *)
(* git initialisation did; a failing git initialisation does not change    *)
(* the status: with a successful installation the run exits with 0.        *)
C2_InstallFailureFatalGitFailureNot ==
  /\ Failed("install")
       => /\ pc = "exit"
          /\ exitCode = 1
          /\ ~Printed("summary") /\ ~Printed("success")
          /\ Succeeded("clone")
  /\ Failed("gitInit") => pc \in {"install", "summary", "exit"}
  /\ (pc = "exit" /\ Failed("gitInit") /\ Succeeded("install"))
       => exitCode = 0 /\ Printed("summary")
  /\ (pc = "exit" /\ Succeeded("install")) => exitCode = 0

C2_Witness_GitFailedInstallFailed ==
  /\ pc = "exit"
  /\ Failed("gitInit")
  /\ Failed("install")
  /\ exitCode = 1

(* C3: valid request, target an existing directory that is not empty,      *)
(* force unset: the run fails with the conflict error and status 1; it     *)
(* writes nothing, asks nothing and attempts no clone.                     *)
C3_ConflictWithoutForce ==
  (/\ ~force
   /\ fsKind0 = "dir" /\ files0 # NoFiles
   /\ Did("accessTarget"))
    => /\ pc \in {"readdir", "catch", "exit"}
       /\ pc # "readdir" => err = <<"conflict", 0>>
       /\ pc = "exit" => exitCode = 1
       /\ ~Did("prompt")
       /\ RunWroteNothing

C3_Witness_ConflictExit ==
  /\ ~force
  /\ fsKind0 = "dir" /\ files0 # NoFiles
  /\ pc = "exit"
  /\ err = <<"conflict", 0>>
  /\ exitCode = 1

(* C4: valid request, target an existing directory that is not empty,      *)
(* force set, confirmation refused: the run exits with status 1 with no    *)
(* clone attempt, no git initialisation, no installation, and the files    *)
(* of the target are what they were.                                       *)
C4_RefusedOverwrite ==
  (/\ force
   /\ fsKind0 = "dir" /\ files0 # NoFiles
   /\ confirmed = "no")
    => /\ pc = "exit"
       /\ exitCode = 1
       /\ RunWroteNothing
       /\ ~Printed("summary")

C4_Witness_Refused ==
  /\ force
  /\ fsKind0 = "dir" /\ files0 # NoFiles
  /\ confirmed = "no"
  /\ pc = "exit"


(* C5: valid request, target an existing empty directory, any force: the   *)
(* reconciler asks for no confirmation, changes nothing, and the run goes  *)
(* on to the fetch.                                                        *)
C5_EmptyDirectoryProceedsUnasked ==
  (/\ fsKind0 = "dir" /\ files0 = NoFiles
   /\ extCount = 0
   /\ Did("accessTarget"))
    => /\ pc # "prompt" /\ ~Did("prompt")
       /\ ~Did("mkdir")
       /\ pc \in {"catch", "exit"} => Did("clone")

(* C6, as claimed: valid request, target path absent, any force: the       *)
(* reconciler creates the directory without a prompt and the run goes on   *)
(* to the fetch with the target path existing.                             *)
C6_Claimed_AbsentAlwaysCreated ==
  (exists = "no" /\ pc # "mkdir")
    => /\ Succeeded("mkdir")
       /\ ~Did("prompt")
       /\ fsKind = "dir"
       /\ pc \in {"catch", "exit"} => Did("clone")

(* C6, amended: valid request, target path absent, any force: the          *)
(* reconciler asks nothing and lists nothing, and calls mkdir; when mkdir  *)
(* succeeds the directory exists and the run goes on to the fetch; when    *)
(* mkdir fails the run ends with status 1 and no clone attempt.            *)
C6_AbsentCreatedOrFails ==
  (exists = "no")
    => /\ ~Did("prompt") /\ ~Did("readdir") /\ confirmed = "none"
       /\ pc # "mkdir" => Did("mkdir")
       /\ Succeeded("mkdir")
            => /\ fsKind = "dir"
               /\ pc \in {"clone", "git", "install", "summary", "catch",
                          "exit"}
               /\ pc \in {"catch", "exit"} => Did("clone")
       /\ Failed("mkdir")
            => /\ pc \in {"catch", "exit"}
               /\ err = <<"mkdir", 0>>
               /\ ~Did("clone")
               /\ pc = "exit" => exitCode = 1

C6_Witness_CreatedWithForce ==
  /\ exists = "no"
  /\ force
  /\ Succeeded("mkdir")
  /\ pc = "clone"
  /\ fsKind = "dir"

(* C7: the stages run in the order Validate, ReconcileDirectory, Fetch,    *)
(* InitVCS, InstallDeps, Summarize; a stage starts only when the earlier   *)
(* ones have finished; a failure of a stage other than InitVCS is the last *)
(* operation of the run, which exits with status 1; git initialisation and *)
(* installation run only after a successful clone attempt.                 *)
Stage(op) ==
  CASE op \in {"checkName", "checkPM", "checkUrl", "accessBase"} -> 1
    [] op \in {"accessTarget", "readdir", "prompt", "mkdir"} -> 2
    [] op = "clone" -> 3
    [] op = "gitInit" -> 4
    [] op = "install" -> 5
    [] op = "summary" -> 6

(* accessTarget answering false is the classification Absent, not a        *)
(* failure; a failed git initialisation is tolerated; a failed clone       *)
(* attempt fails the Fetch stage when it is the third.                     *)
StageFailedAt(i) ==
  /\ ~ops[i][2]
  /\ ops[i][1] \notin {"accessTarget", "gitInit"}
  /\ ops[i][1] = "clone" => Len(SelectSeq(SubSeq(ops, 1, i), IsClone)) = 3

C7_StagesInOrder ==
  /\ \A i, j \in 1..Len(ops) :
       i < j => Stage(ops[i][1]) <= Stage(ops[j][1])
  /\ \A i \in 1..Len(ops) :
       StageFailedAt(i)
         => /\ i = Len(ops)
            /\ pc \in {"catch", "exit"}
            /\ pc = "exit" => exitCode = 1
  /\ \A i \in 1..Len(ops) :
       (ops[i] = <<"clone", FALSE>> /\ i < Len(ops)) => ops[i+1][1] = "clone"
  /\ (\E i \in 1..Len(ops) : Stage(ops[i][1]) >= 2)
       => /\ Succeeded("checkName") /\ Succeeded("checkPM")
          /\ Succeeded("checkUrl") /\ Succeeded("accessBase")
  /\ Did("clone")
       => /\ Did("accessTarget")
          /\ \/ Succeeded("mkdir")
             \/ Succeeded("readdir")
             \/ Succeeded("prompt")
  /\ (Did("gitInit") \/ Did("install")) => Succeeded("clone")
  /\ (Did("install") /\ git) => Did("gitInit")
  /\ Did("summary") => Succeeded("install")
  /\ (pc = "exit" /\ exitCode = 0) => Did("summary")

C7_Witness_AllStages ==
  /\ pc = "exit"
  /\ exitCode = 0
  /\ Did("gitInit")
  /\ Did("summary")

(* C8: when one of the four validation checks fails, the run exits with    *)
(* status 1 having touched nothing: the target is not created, nothing is  *)
(* asked, no clone is attempted.                                           *)
C8_InvalidRequestTouchesNothing ==
  (\/ ~ProjectNameValid(projectName)
   \/ ~PackageManagerValid(packageManager)
   \/ ~TemplateUrlValid(template)
   \/ ~baseDirExists)
    => /\ ~Did("accessTarget") /\ ~Did("readdir") /\ ~Did("prompt")
       /\ RunWroteNothing
       /\ extCount = 0 => (fsKind = fsKind0 /\ files = files0)
       /\ pc = "exit" => (exitCode = 1 /\ err[1] \in {"name",
                            "packageManager", "template", "baseDir"})
       /\ pc \in {"checkName", "checkPM", "checkUrl", "checkBase", "catch",
                  "exit"}

C8_Witness_BadTemplateExit ==
  /\ ProjectNameValid(projectName)
  /\ PackageManagerValid(packageManager)
  /\ ~TemplateUrlValid(template)
  /\ pc = "exit"
  /\ exitCode = 1
  /\ fsKind0 = "absent" /\ fsKind = "absent"


(* C9, as claimed: validateInputs runs its four checks on every request.   *)
ValidationOver == pc \notin {"checkName", "checkPM", "checkUrl", "checkBase"}

C9_Claimed_AllFourChecksRun ==
  ValidationOver
    => /\ Did("checkName") /\ Did("checkPM")
       /\ Did("checkUrl") /\ Did("accessBase")

(* C9, amended: validateInputs runs the checks in the order project name,  *)
(* package manager, template URL, base directory, and stops at the first   *)
(* one that fails: the checks after it are not run, and the error reported *)
(* is the error of that first failing check.                               *)
CheckOrder == <<"checkName", "checkPM", "checkUrl", "accessBase">>

ErrorOrder == <<"name", "packageManager", "template", "baseDir">>

InputPasses(k) ==
  CASE k = 1 -> ProjectNameValid(projectName)
    [] k = 2 -> PackageManagerValid(packageManager)
    [] k = 3 -> TemplateUrlValid(template)
    [] k = 4 -> baseDirExists

FirstFailing ==
  IF \A k \in 1..4 : InputPasses(k) THEN 0
  ELSE CHOOSE k \in 1..4 :
         ~InputPasses(k) /\ \A j \in 1..(k-1) : InputPasses(j)

IsCheck(o) == Stage(o[1]) = 1

ChecksRun == SelectSeq(ops, IsCheck)

C9_ChecksStopAtFirstFailure ==
  /\ Len(ChecksRun) <= 4
  /\ \A i \in 1..Len(ChecksRun) :
       /\ ChecksRun[i] = <<CheckOrder[i], InputPasses(i)>>
       /\ i < Len(ChecksRun) => ChecksRun[i][2]
  /\ ValidationOver
       => IF FirstFailing = 0
            THEN Len(ChecksRun) = 4 /\ err[1] \notin {"name", "template",
                                                     "baseDir"}
            ELSE /\ Len(ChecksRun) = FirstFailing
                 /\ err = <<ErrorOrder[FirstFailing], 0>>
                 /\ pc \in {"catch", "exit"}
                 /\ pc = "exit" => exitCode = 1

C9_Witness_TwoProblemsFirstReported ==
  /\ ~ProjectNameValid(projectName)
  /\ ~PackageManagerValid(packageManager)
  /\ ~baseDirExists
  /\ pc = "exit"
  /\ err = <<"name", 0>>
  /\ Len(ops) = 1

(* C10: the project-name check passes exactly for the names of one or more *)
(* characters all taken from A-Z, a-z, 0-9, '_' and '-'; any other name is *)
(* rejected with the project-name error.                                   *)
AllowedNameChars == {"a", "z", "A", "Z", "0", "9", "_", "-"}

C10_NameAcceptedIffAllowed ==
  Did("checkName")
    => LET accepted == ops[1][2]
           allowed == /\ projectName # <<>>
                      /\ \A i \in 1..Len(projectName) :
                           projectName[i] \in AllowedNameChars
       IN  /\ ops[1][1] = "checkName"
           /\ accepted <=> allowed
           /\ accepted => err[1] # "name"
           /\ ~accepted => /\ err = <<"name", 0>>
                           /\ pc \in {"catch", "exit"}
                           /\ pc = "exit" => exitCode = 1

C10_Witness_SlashRejected ==
  /\ projectName = <<"a", "/">>
  /\ pc = "exit"
  /\ err = <<"name", 0>>
  /\ exitCode = 1

(* C11: the package-manager check passes exactly for npm, yarn and pnpm;   *)
(* any other value is rejected with the package-manager error, and the     *)
(* install command is never run with a manager outside these three.        *)
IsPMCheck(o) == o[1] = "checkPM"

C11_OnlyThreePackageManagers ==
  LET supported == packageManager \in {"npm", "yarn", "pnpm"}
      checks == SelectSeq(ops, IsPMCheck)
  IN  /\ \A i \in 1..Len(checks) : checks[i][2] <=> supported
      /\ Failed("checkPM")
           => /\ err = <<"packageManager", 0>>
              /\ pc \in {"catch", "exit"}
              /\ pc = "exit" => exitCode = 1
      /\ (Did("checkPM") /\ supported) => err[1] # "packageManager"
      /\ (pc \in {"install", "summary"} \/ Did("install")) => supported

C11_Witness_UnsupportedRejected ==
  /\ packageManager = "bun"
  /\ ProjectNameValid(projectName)
  /\ pc = "exit"
  /\ err = <<"packageManager", 0>>
  /\ exitCode = 1
  /\ ~Did("install")

(* C12: two runs with the same request, filesystem, confirmation answer    *)
(* and outcomes of the external calls, differing in debug only, perform    *)
(* the same operations in the same order, leave the same filesystem and    *)
(* exit with the same status; their messages differ only in the detail of  *)
(* the failure message.                                                    *)
IsPrefix(a, b) == Len(a) <= Len(b) /\ SubSeq(b, 1, Len(a)) = a

Quiet(o) ==
  [i \in 1..Len(o) |-> IF o[i] \in {"stack", "message"} THEN "detail"
                       ELSE o[i]]

C12_DebugChangesOnlyVerbosity ==
  /\ Printed("stack") => debug
  /\ Printed("message") => ~debug
  /\ phase = 2
       => /\ IsPrefix(ops, first.ops)
          /\ IsPrefix(Quiet(out), Quiet(first.out))
          /\ pc = "exit"
               => /\ ops = first.ops
                  /\ exitCode = first.exitCode
                  /\ fsKind = first.fsKind
                  /\ files = first.files
                  /\ Quiet(out) = Quiet(first.out)

C12_Witness_DebugRunAfterQuietRun ==
  /\ phase = 2
  /\ pc = "exit"
  /\ debug
  /\ Printed("stack")
  /\ err[1] = "clone"
  /\ first.exitCode = 1
  /\ first.ops = ops

(* C13: git initialisation is attempted exactly when the fetch succeeded   *)
(* and --no-git was not given, and at most once; with --no-git it is never *)
(* attempted; either way the installation is attempted after a successful  *)
(* fetch.                                                                  *)
C13_GitInitIffFetchedAndEnabled ==
  /\ Did("gitInit") => (git /\ Succeeded("clone"))
  /\ (git /\ Succeeded("clone")) => (pc = "git" \/ Did("gitInit"))
  /\ pc = "git" => (git /\ Succeeded("clone") /\ ~Did("gitInit"))
  /\ Count("gitInit") <= 1
  /\ ~git => ~Did("gitInit")
  /\ Succeeded("clone")
       => (pc \in {"git", "install"} \/ Did("install"))
  /\ Did("install")
       => /\ Succeeded("clone")
          /\ Count("install") = 1
          /\ \A i, j \in 1..Len(ops) :
               (ops[i][1] = "gitInit" /\ ops[j][1] = "install") => i < j

C13_Witness_NoGitStillInstalls ==
  /\ ~git
  /\ Succeeded("clone")
  /\ Did("install")
  /\ ~Did("gitInit")
  /\ pc = "exit"

(* C14: the classification of the target is made once and never repeated.  *)
(* With force unset, once the target has been found absent or empty, files *)
(* that another process puts there before the clone do not lead to the     *)
(* conflict error or to a prompt: the next operation on the target is the  *)
(* clone (after the mkdir when it was absent).                             *)
FirstClone == CHOOSE i \in 1..Len(ops) :
                ops[i][1] = "clone" /\ \A j \in 1..(i-1) : ops[j][1] # "clone"

C14_ClassifiedOnceThenCloned ==
  ~force
    => /\ Count("accessTarget") <= 1 /\ Count("readdir") <= 1
       /\ (Succeeded("readdir") \/ exists = "no")
            => err[1] # "conflict" /\ ~Did("prompt")
       /\ (Succeeded("readdir") \/ Succeeded("mkdir"))
            => (pc = "clone" \/ Did("clone"))
       /\ Did("clone")
            => ops[FirstClone - 1] \in {<<"readdir", TRUE>>, <<"mkdir", TRUE>>}

(* The interleaving: the directory was listed and found empty, another     *)
(* process then created package.json (the only file it created), and the   *)
(* single clone attempt that followed succeeded and replaced that file.    *)
C14_Witness_PutBetweenListingAndClone ==
  /\ ~force
  /\ fsKind0 = "dir" /\ files0 = NoFiles
  /\ Succeeded("readdir")
  /\ extCount = 1
  /\ CloneResults = <<(<<"clone", TRUE>>)>>
  /\ files = [n \in FileNames |-> IF n = "package.json" THEN "tmpl" ELSE "none"]
  /\ err = <<"none", 0>>
  /\ ~Did("prompt")

(* C15: when the fetch has failed for good the run exits with status 1 and *)
(* undoes nothing: a directory the run created is still there, the files a *)
(* failed attempt left are still there, and no file that existed has gone. *)
C15_NoCleanupAfterFetchFailure ==
  /\ fsKind0 = "dir" => fsKind = "dir"
  /\ \A n \in FileNames : files0[n] # "none" => files[n] # "none"
  /\ err[1] = "clone"
       => /\ pc \in {"catch", "exit"}
          /\ pc = "exit" => exitCode = 1
          /\ Succeeded("mkdir") => fsKind = "dir"
          /\ (\E i \in 1..Len(partials) : partials[i])
               => /\ fsKind = "dir"
                  /\ \A n \in TemplateFiles : files[n] = "part"
          /\ \A n \in FileNames \ TemplateFiles :
               files0[n] = "old" => files[n] = "old"

C15_Witness_CreatedDirAndPartialFilesKept ==
  /\ pc = "exit"
  /\ exitCode = 1
  /\ err[1] = "clone"
  /\ fsKind0 = "absent"
  /\ Succeeded("mkdir")
  /\ extCount = 0
  /\ fsKind = "dir"
  /\ files["package.json"] = "part"

(* C16: the counter of remaining attempts starts at 3, loses exactly one   *)
(* per failed attempt and stays within 0..3; the fetch error is raised     *)
(* exactly when it reaches 0, and it is the error of the third, last       *)
(* failed attempt.                                                         *)
IsFailedClone(o) == o = <<"clone", FALSE>>

FailedClones == Len(SelectSeq(ops, IsFailedClone))

C16_LastErrorRaisedAtZero ==
  /\ retries \in 0..3
  /\ retries = 3 - FailedClones
  /\ err[1] = "clone" <=> retries = 0
  /\ retries = 0 => pc \in {"catch", "exit"}
  /\ err[1] = "clone"
       => /\ err[2] = 3
          /\ err[2] = Len(CloneResults)
          /\ CloneResults[err[2]] = <<"clone", FALSE>>

C16_Witness_ThirdErrorThrown ==
  /\ pc = "catch"
  /\ retries = 0
  /\ err = <<"clone", 3>>
  /\ FailedClones = 3

(* C17: a run exits with status 0, having printed the success summary,     *)
(* only if the four validation checks passed, a clone attempt succeeded    *)
(* and the installation succeeded; every other run that ends exits with 1. *)
C17_ExitZeroOnlyOnFullSuccess ==
  pc = "exit"
    => /\ exitCode \in {0, 1}
       /\ exitCode = 0
            <=> /\ Succeeded("checkName") /\ Succeeded("checkPM")
                /\ Succeeded("checkUrl") /\ Succeeded("accessBase")
                /\ Succeeded("clone")
                /\ Succeeded("install")
       /\ exitCode = 0
            => /\ ProjectNameValid(projectName)
               /\ PackageManagerValid(packageManager)
               /\ TemplateUrlValid(template)
               /\ baseDirExists
               /\ err = <<"none", 0>>
       /\ exitCode = 0 <=> (Printed("summary") /\ Printed("success"))

C17_Witness_ForcedOverwriteSucceeds ==
  /\ pc = "exit"
  /\ exitCode = 0
  /\ force /\ confirmed = "yes"
  /\ files0 # NoFiles
  /\ Succeeded("clone")
  /\ Succeeded("install")

(* C18: for a request that has passed validation the resolved path is the  *)
(* project name resolved against baseDir; a project name that is an        *)
(* absolute path, for which the resolved path is the name itself, is       *)
(* rejected by the project-name check, so the directory checks and the     *)
(* clone never run on such a path.                                         *)
C18_ValidatedPathIsJoined ==
  /\ (\/ pc \in {"accessTarget", "readdir", "prompt", "mkdir", "clone",
                 "git", "install", "summary"}
      \/ \E i \in 1..Len(ops) : Stage(ops[i][1]) >= 2)
       => /\ projectPath = <<"joined", projectName>>
          /\ \A i \in 1..Len(projectName) : projectName[i] # "/"
  /\ projectPath[1] = "verbatim"
       => /\ projectPath[2] = projectName
          /\ pc \in {"checkName", "catch", "exit"}
          /\ pc # "checkName" => (ops = <<(<<"checkName", FALSE>>)>>
                                  /\ err = <<"name", 0>>)

C18_Witness_JoinedPathAtFetch ==
  /\ pc = "clone"
  /\ projectPath = <<"joined", <<"a", "p", "p">> >>
  /\ ~Did("clone")

(* C19: a target path that exists but cannot be listed is reported as not  *)
(* empty: with force unset the run fails with the conflict error and       *)
(* status 1 and attempts no clone.                                         *)
C19_UnlistableTargetIsConflict ==
  (~force /\ fsKind0 = "file")
    => /\ fsKind = "file"
       /\ Did("accessTarget")
            => /\ exists = "yes"
               /\ pc \in {"readdir", "catch", "exit"}
       /\ Did("readdir")
            => /\ Failed("readdir")
               /\ err = <<"conflict", 0>>
               /\ pc \in {"catch", "exit"}
               /\ pc = "exit" => exitCode = 1
       /\ ~Did("clone") /\ ~Did("mkdir") /\ ~Did("prompt")

C19_Witness_RegularFileConflict ==
  /\ ~force
  /\ fsKind0 = "file"
  /\ Failed("readdir")
  /\ pc = "exit"
  /\ exitCode = 1
  /\ err = <<"conflict", 0>>

====
